---- MODULE Spec2Model ----
(***************************************************************************)
(* Epoch-based index synchronisation of astropylibrarian.                  *)
(*                                                                         *)
(* The workflows index_tutorial (with expire_old_records) and              *)
(* delete_root_url run as asyncio coroutines against one index object.    *)
(* Every await of an index call is a scheduling point, so each call is one *)
(* atomic action of the process that issues it and the calls of different  *)
(* processes interleave freely.                                            *)
(*                                                                         *)
(* Lists of object ids (records, saved_object_ids, old_object_ids,         *)
(* object_ids) are modelled as sets: the index stores one record per       *)
(* objectID and no formula below depends on the order of a list.           *)
(***************************************************************************)
EXTENDS Integers, FiniteSets, Sequences, TLC

(***************************************************************************)
(* Bounds of the model.                                                    *)
(***************************************************************************)
NumProcs == 2        \* workflows started in a behaviour, each a coroutine
IdsPerRoot == 3      \* sections (object ids) the page at R1 can yield
HitsPerPage == 1     \* hits one browse response carries
MaxCalls == 3        \* direct calls of client methods in a behaviour
MaxNodes == 3        \* elements of a parsed page
MaxEvents == 6       \* headings and texts met in one traversal
MaxLevel == 3        \* heading levels met (h1..)
MaxLen == 5          \* characters of a text given to _clean_content
MaxUrlLen == 4       \* tokens of a URL after its host

Procs == 1..NumProcs
Roots == {"R1", "R2"}
NoUrl == "-"
\* The value of an objectID under which the index stores nothing.
NoRec == [root_url |-> NoUrl, index_epoch |-> -1]

\* Epoch 0 stamps the records left by crawls that ended before the behaviour
\* starts; the runs of the behaviour mint 1, 2, ... in the order they start.
Epochs == 0..NumProcs

\* The object id of a section: a function of the page URL and the anchor
\* only (the k-th anchor of the page).
ObjectId(url, k) == <<url, k>>

\* The anchors of the page at a root: R1 is the page under study, R2 is a
\* second page, with a single section.
Anchors(u) == IF u = "R1" THEN 1..IdsPerRoot ELSE {1}
ObjectIds == UNION {{ObjectId(u, k) : k \in Anchors(u)} : u \in Roots}

\* The three kinds of index object a workflow can be handed.  AlgoliaIndex
\* and MockAlgoliaIndex are the classes of algolia/client.py; IndexService
\* is an index object that offers the operations under the names and with
\* the call shapes the workflows use.
Clients == {"AlgoliaIndex", "MockAlgoliaIndex", "IndexService"}

\* The methods each class of algolia/client.py defines.
Methods(kind) ==
  IF kind = "IndexService"
  THEN {"save_objects_async", "browse_objects", "delete_objects",
        "browse_objects_async", "delete_objects_async"}
  ELSE {"browse_objects", "save_objects", "delete_objects"}

VARIABLES
  client,            \* kind of the index object handed to the workflows
  index,             \* the remote index: objectID -> stored record or NoRec
  nextEpoch,         \* number of epochs minted so far
  pc,                \* per process: where its workflow stands
  workflow,          \* per process: the workflow it runs
  root_url,          \* per process: root_url of the running workflow
  index_epoch,       \* per process: epoch minted by index_tutorial
  records,           \* per process: object ids of the batch built
  saved_object_ids,  \* per process: ids the save response reported
  hits,              \* per process: the hits the browse returned
  old_object_ids,    \* per process: ids collected for the delete call
  ret,               \* per process: value returned by the workflow
  outcome,           \* per process: how the save call of index_tutorial ended
  sweep,             \* per process: the call of the sweep that raised, if any
  calls,             \* per process: index calls issued so far, in order
  touched,           \* per process: ids whose stored record its calls changed
  alone,             \* per process: no other workflow on its root in flight
                     \* at any time since it started
  saved_objects,     \* MockAlgoliaIndex._saved_objects: the list of saved objects
  response,          \* what the last direct call of a client method returned,
                     \* per client class
  call,              \* the last direct call of a client method
  ncalls,            \* number of direct calls of client methods so far
  doc,               \* JupyterBookPage.doc: the elements of the parsed page
  found,             \* what iter_sections found: the content root and the
                     \* selector that gave it
  headers,           \* the heading stack of the traversal
  buffer,            \* the texts met since the last section boundary
  sections,          \* the sections yielded so far
  seen,              \* the levels of the headings met so far, in order
  walking,           \* the traversal has not ended
  text,              \* the argument of _clean_content
  cleaned,           \* what _clean_content returned
  v,                 \* the root_url given to JupyterBookMetadata
  new_url,           \* the root_url validate_root_url returned
  revalidated        \* what validate_root_url returned for new_url

\* The state of the workflows.
wfVars == <<client, index, nextEpoch, pc, workflow, root_url,
            index_epoch, records, saved_object_ids, hits, old_object_ids, ret,
            outcome, sweep, calls, touched, alone>>

\* The state of the client classes called directly.
clVars == <<saved_objects, response, call, ncalls>>

\* The state of a JupyterBookPage whose sections are iterated.
selVars == <<doc, found>>

\* The state of the traversal of the content root.
secVars == <<headers, buffer, sections, seen, walking>>

\* The state of a call of _clean_content.
txtVars == <<text, cleaned>>

\* The state of a validation of root_url.
urlVars == <<v, new_url, revalidated>>

\* The state the workflows do not touch.
aux == <<clVars, selVars, secVars, txtVars, urlVars>>

vars == <<wfVars, aux>>

----------------------------------------------------------------------------
(***************************************************************************)
(* The index service: upsert by id, filtered browse, delete by id.         *)
(***************************************************************************)
Rec(u, e) == [root_url |-> u, index_epoch |-> e]

Stored(idx) == {i \in ObjectIds : idx[i] # NoRec}

RootIds(idx, u) == {i \in Stored(idx) : idx[i].root_url = u}

\* save_objects: every object of the batch replaces the record stored under
\* its objectID, or is added.
Upsert(idx, batch, u, e) ==
  [i \in ObjectIds |-> IF i \in batch THEN Rec(u, e) ELSE idx[i]]

\* delete_objects: the records stored under the given ids are removed.
Remove(idx, ids) ==
  [i \in ObjectIds |-> IF i \in ids THEN NoRec ELSE idx[i]]

\* A hit as the browse returns it: objectID plus the retrieved attributes
\* (delete_root_url retrieves root_url only and never reads the epoch of a
\* hit).
Hit(idx, i) == [objectID |-> i, root_url |-> idx[i].root_url,
                index_epoch |-> idx[i].index_epoch]

Changed(idx, idx2) == {i \in ObjectIds : idx[i] # idx2[i]}

InFlight(p) == pc[p] \notin {"idle", "DONE", "FAILED", "RAISED", "DRU_DONE"}

Others(p, u) == {q \in Procs \ {p} : InFlight(q) /\ root_url[q] = u}

----------------------------------------------------------------------------
\* A call that has not been made, and its result.
NoCall == [op |-> "-", root_url |-> NoUrl, ids |-> {}, index_epoch |-> 0]
NoResult == [shape |-> "-", objectIDs |-> {}, hits |-> 0]

\* No client method has been called directly; the mock has just been
\* entered (`self._saved_objects = []`).
ClientIdle ==
  /\ saved_objects = <<>>
  /\ response = [k \in {"AlgoliaIndex", "MockAlgoliaIndex"} |-> NoResult]
  /\ call = NoCall
  /\ ncalls = 0

\* No workflow has started.
NoWorkflow ==
  /\ nextEpoch = 0
  /\ pc = [p \in Procs |-> "idle"]
  /\ workflow = [p \in Procs |-> "-"]
  /\ root_url = [p \in Procs |-> NoUrl]
  /\ index_epoch = [p \in Procs |-> 0]
  /\ records = [p \in Procs |-> {}]
  /\ saved_object_ids = [p \in Procs |-> {}]
  /\ hits = [p \in Procs |-> {}]
  /\ old_object_ids = [p \in Procs |-> {}]
  /\ ret = [p \in Procs |-> {}]
  /\ outcome = [p \in Procs |-> "-"]
  /\ sweep = [p \in Procs |-> "-"]
  /\ calls = [p \in Procs |-> <<>>]
  /\ touched = [p \in Procs |-> {}]
  /\ alone = [p \in Procs |-> TRUE]

EmptyIndex == [i \in ObjectIds |-> NoRec]

\* No page has been parsed.
NoDoc == <<>>
NotRun == [root |-> 0, selector |-> 0, state |-> "-"]
SelectIdle == doc = NoDoc /\ found = NotRun

\* _clean_content has not been called.
NotCleaned == <<"-">>
CleanIdle == text = <<>> /\ cleaned = NotCleaned

\* No root_url has been validated.
NoUrlYet == [scheme |-> "-", netloc |-> "-", rest |-> <<>>]
UrlIdle == v = NoUrlYet /\ new_url = NoUrlYet /\ revalidated = NoUrlYet

\* Mutant of InitialHeaders: the traversal starts with the list an earlier
\* traversal left.
InitialHeaders_Stale == <<[level |-> 2, title |-> 0]>>

\* iter_sections starts the traversal with `headers=[]`.
InitialHeaders == <<>>

\* No traversal has met anything.
TraversalIdle ==
  /\ headers = InitialHeaders
  /\ buffer = <<>>
  /\ sections = <<>>
  /\ seen = <<>>
  /\ walking = TRUE

Init ==
  /\ client \in Clients
  /\ index \in {[i \in ObjectIds |-> IF i[2] <= n[i[1]] THEN Rec(i[1], 0)
                                                     ELSE NoRec] :
                  n \in [Roots -> 0..IdsPerRoot]}
  /\ nextEpoch = 0
  /\ pc = [p \in Procs |-> "idle"]
  /\ workflow = [p \in Procs |-> "-"]
  /\ root_url = [p \in Procs |-> NoUrl]
  /\ index_epoch = [p \in Procs |-> 0]
  /\ records = [p \in Procs |-> {}]
  /\ saved_object_ids = [p \in Procs |-> {}]
  /\ hits = [p \in Procs |-> {}]
  /\ old_object_ids = [p \in Procs |-> {}]
  /\ ret = [p \in Procs |-> {}]
  /\ outcome = [p \in Procs |-> "-"]
  /\ sweep = [p \in Procs |-> "-"]
  /\ calls = [p \in Procs |-> <<>>]
  /\ touched = [p \in Procs |-> {}]
  /\ alone = [p \in Procs |-> TRUE]
  /\ ClientIdle
  /\ SelectIdle
  /\ TraversalIdle
  /\ CleanIdle
  /\ UrlIdle

\* Each process runs one workflow; they start in the order of their numbers
\* (which process runs a workflow makes no difference to it).
Free(p) == pc[p] = "idle" /\ \A q \in Procs : q < p => pc[q] # "idle"

\* A workflow on root u starts in process p: it is alone unless another
\* workflow on u is in flight, and that one is no longer alone either.
StartAlone(p, u) ==
  alone' = [q \in Procs |->
              IF q = p THEN Others(p, u) = {}
              ELSE IF q \in Others(p, u) THEN FALSE ELSE alone[q]]

\* Mutant of IT_Build: the run sweeps before it saves.
IT_Build_SweepFirst(p, u, ks) ==
  /\ Free(p)
  /\ nextEpoch' = nextEpoch + 1
  /\ index_epoch' = [index_epoch EXCEPT ![p] = nextEpoch + 1]
  /\ root_url' = [root_url EXCEPT ![p] = u]
  /\ records' = [records EXCEPT ![p] = {ObjectId(u, k) : k \in ks}]
  /\ pc' = [pc EXCEPT ![p] = "SWEEP_BROWSE"]
  /\ workflow' = [workflow EXCEPT ![p] = "index_tutorial"]
  /\ StartAlone(p, u)
  /\ UNCHANGED <<aux, sweep>>
  /\ UNCHANGED <<client, index, saved_object_ids, hits, old_object_ids, ret,
                 outcome, calls, touched>>

\* Mutant of IT_Build: the epoch is not minted per run (a value made once,
\* when the module is loaded, stamps every run).
IT_Build_EpochNotMinted(p, u, ks) ==
  /\ Free(p)
  /\ nextEpoch' = nextEpoch
  /\ index_epoch' = [index_epoch EXCEPT ![p] = nextEpoch]
  /\ root_url' = [root_url EXCEPT ![p] = u]
  /\ records' = [records EXCEPT ![p] = {ObjectId(u, k) : k \in ks}]
  /\ pc' = [pc EXCEPT ![p] = "SAVE"]
  /\ workflow' = [workflow EXCEPT ![p] = "index_tutorial"]
  /\ StartAlone(p, u)
  /\ UNCHANGED <<aux, sweep>>
  /\ UNCHANGED <<client, index, saved_object_ids, hits, old_object_ids, ret,
                 outcome, calls, touched>>

(***************************************************************************)
(* index_tutorial, BUILD: mint the epoch and build the batch.              *)
(***************************************************************************)
IT_Build(p, u, ks) ==
  /\ Free(p)
  /\ nextEpoch' = nextEpoch + 1
  /\ index_epoch' = [index_epoch EXCEPT ![p] = nextEpoch + 1]
  /\ root_url' = [root_url EXCEPT ![p] = u]
  /\ records' = [records EXCEPT ![p] = {ObjectId(u, k) : k \in ks}]
  /\ pc' = [pc EXCEPT ![p] = "SAVE"]
  /\ workflow' = [workflow EXCEPT ![p] = "index_tutorial"]
  /\ StartAlone(p, u)
  /\ UNCHANGED <<aux, sweep>>
  /\ UNCHANGED <<client, index, saved_object_ids, hits, old_object_ids, ret,
                 outcome, calls, touched>>

\* The objectIDs of raw_responses, as the loop of index_tutorial collects
\* them: the service reports the ids of the objects it stored.
SavedObjectIds(batch) == batch

\* Mutant of AfterSave: the sweep runs whatever the save persisted.
AfterSave_AlwaysSweep(saved) == "SWEEP_BROWSE"

\* `if saved_object_ids:` -- the sweep runs only after a non-empty save.
AfterSave(saved) == IF saved # {} THEN "SWEEP_BROWSE" ELSE "DONE"

(***************************************************************************)
(* index_tutorial, SAVE: the save call returns a response.                 *)
(***************************************************************************)
IT_Save(p) ==
  /\ pc[p] = "SAVE"
  /\ "save_objects_async" \in Methods(client)
  /\ index' = Upsert(index, records[p], root_url[p], index_epoch[p])
  /\ saved_object_ids' = [saved_object_ids EXCEPT ![p] = SavedObjectIds(records[p])]
  /\ calls' = [calls EXCEPT ![p] = Append(@, "save")]
  /\ touched' = [touched EXCEPT ![p] = @ \cup Changed(index, index')]
  /\ pc' = [pc EXCEPT ![p] = AfterSave(saved_object_ids'[p])]
  /\ ret' = [ret EXCEPT ![p] =
               IF pc'[p] = "DONE" THEN saved_object_ids'[p] ELSE @]
  /\ outcome' = [outcome EXCEPT ![p] = "response"]
  /\ UNCHANGED <<aux, sweep>>
  /\ UNCHANGED <<client, nextEpoch, workflow, root_url, index_epoch,
                 records, hits, old_object_ids, alone>>

\* Mutant of IT_SaveRequestException: the error is logged and the run goes
\* on to the sweep.
IT_SaveRequestException_GoesOn(p) ==
  /\ pc[p] = "SAVE"
  /\ "save_objects_async" \in Methods(client)
  /\ calls' = [calls EXCEPT ![p] = Append(@, "save")]
  /\ pc' = [pc EXCEPT ![p] = "SWEEP_BROWSE"]
  /\ outcome' = [outcome EXCEPT ![p] = "RequestException"]
  /\ UNCHANGED <<aux, sweep>>
  /\ UNCHANGED <<client, index, nextEpoch, workflow, root_url,
                 index_epoch, records, saved_object_ids, hits, old_object_ids,
                 ret, touched, alone>>

(***************************************************************************)
(* index_tutorial, SAVE: the save call raises RequestException; the        *)
(* service reports the failure for the whole batch and stores nothing.     *)
(***************************************************************************)
IT_SaveRequestException(p) ==
  /\ pc[p] = "SAVE"
  /\ "save_objects_async" \in Methods(client)
  /\ calls' = [calls EXCEPT ![p] = Append(@, "save")]
  /\ pc' = [pc EXCEPT ![p] = "FAILED"]
  /\ ret' = [ret EXCEPT ![p] = {}]
  /\ outcome' = [outcome EXCEPT ![p] = "RequestException"]
  /\ UNCHANGED <<aux, sweep>>
  /\ UNCHANGED <<client, index, nextEpoch, workflow, root_url,
                 index_epoch, records, saved_object_ids, hits, old_object_ids,
                 touched, alone>>

\* Mutant of IT_SaveTimeout: the except clause catches every exception.
IT_SaveTimeout_Caught(p) ==
  /\ pc[p] = "SAVE"
  /\ "save_objects_async" \in Methods(client)
  /\ \/ index' = index
     \/ index' = Upsert(index, records[p], root_url[p], index_epoch[p])
  /\ calls' = [calls EXCEPT ![p] = Append(@, "save")]
  /\ touched' = [touched EXCEPT ![p] = @ \cup Changed(index, index')]
  /\ pc' = [pc EXCEPT ![p] = "FAILED"]
  /\ ret' = [ret EXCEPT ![p] = {}]
  /\ outcome' = [outcome EXCEPT ![p] = "timeout"]
  /\ UNCHANGED <<aux, sweep>>
  /\ UNCHANGED <<client, nextEpoch, workflow, root_url, index_epoch,
                 records, saved_object_ids, hits, old_object_ids, alone>>

(***************************************************************************)
(* index_tutorial, SAVE: the await of the save call ends with a timeout or *)
(* a cancellation (asyncio.TimeoutError, asyncio.CancelledError).  Neither *)
(* is a RequestException, so the except clause does not apply and the      *)
(* exception leaves index_tutorial.  The request may or may not have been  *)
(* applied by the service before the await was abandoned.                  *)
(***************************************************************************)
IT_SaveTimeout(p) ==
  /\ pc[p] = "SAVE"
  /\ "save_objects_async" \in Methods(client)
  /\ \/ index' = index
     \/ index' = Upsert(index, records[p], root_url[p], index_epoch[p])
  /\ calls' = [calls EXCEPT ![p] = Append(@, "save")]
  /\ touched' = [touched EXCEPT ![p] = @ \cup Changed(index, index')]
  /\ pc' = [pc EXCEPT ![p] = "RAISED"]
  /\ outcome' = [outcome EXCEPT ![p] = "timeout"]
  /\ UNCHANGED <<aux, sweep>>
  /\ UNCHANGED <<client, nextEpoch, workflow, root_url, index_epoch,
                 records, saved_object_ids, hits, old_object_ids, ret, alone>>

(***************************************************************************)
(* index_tutorial, SAVE: the index object has no save_objects_async; the   *)
(* attribute lookup raises AttributeError before any request is made.      *)
(***************************************************************************)
IT_SaveAttributeError(p) ==
  /\ pc[p] = "SAVE"
  /\ "save_objects_async" \notin Methods(client)
  /\ pc' = [pc EXCEPT ![p] = "RAISED"]
  /\ outcome' = [outcome EXCEPT ![p] = "AttributeError"]
  /\ UNCHANGED <<aux, sweep>>
  /\ UNCHANGED <<client, index, nextEpoch, workflow, root_url,
                 index_epoch, records, saved_object_ids, hits, old_object_ids,
                 ret, calls, touched, alone>>

----------------------------------------------------------------------------
(***************************************************************************)
(* expire_old_records.                                                     *)
(***************************************************************************)
\* The filter "root_url:<u> AND NOT index_epoch:<e>".
ExpireFilter(idx, u, e) ==
  {i \in Stored(idx) : idx[i].root_url = u /\ idx[i].index_epoch # e}

\* What a browse with a filter can return: the records that match when the
\* service honours the filter, every stored record when it ignores it.
BrowseResults(idx, matching) == {matching, Stored(idx)}

\* The hits of one browse response: the whole result when it fits in a
\* page, otherwise one page of it (a full page, or the shorter last one).
Pages(result) ==
  IF Cardinality(result) <= HitsPerPage
  THEN {result}
  ELSE {h \in SUBSET result : h # {} /\ Cardinality(h) <= HitsPerPage}

\* Mutant of OldObjectIds: the epoch of a hit is not checked.
OldObjectIds_NoEpochCheck(hs, u, e) ==
  {h.objectID : h \in {x \in hs : x.root_url = u}}

\* Mutant of OldObjectIds: the root_url of a hit is not checked.
OldObjectIds_NoRootCheck(hs, u, e) ==
  {h.objectID : h \in {x \in hs : x.index_epoch # e}}

\* The loop over the hits: a hit of another root or of the current epoch is
\* skipped, the objectID of every other hit is collected.
OldObjectIds(hs, u, e) ==
  {h.objectID : h \in {x \in hs : x.root_url = u /\ x.index_epoch # e}}

\* browse_objects(obj).hits and the loop.  The hits are those of the one
\* response the call returns; no cursor is followed.
EOR_Browse(p) ==
  /\ pc[p] = "SWEEP_BROWSE"
  /\ \E res \in BrowseResults(index,
                  ExpireFilter(index, root_url[p], index_epoch[p])) :
       \E page \in Pages(res) :
         hits' = [hits EXCEPT ![p] = {Hit(index, i) : i \in page}]
  /\ old_object_ids' = [old_object_ids EXCEPT ![p] =
                          OldObjectIds(hits'[p], root_url[p], index_epoch[p])]
  /\ calls' = [calls EXCEPT ![p] = Append(@, "browse")]
  /\ pc' = [pc EXCEPT ![p] = "SWEEP_DELETE"]
  /\ UNCHANGED <<aux, sweep>>
  /\ UNCHANGED <<client, index, nextEpoch, workflow, root_url,
                 index_epoch, records, saved_object_ids, ret, outcome, touched,
                 alone>>

\* Mutant of EOR_Delete: the delete call is given the ids of the save.
EOR_Delete_WrongList(p) ==
  /\ pc[p] = "SWEEP_DELETE"
  /\ index' = Remove(index, saved_object_ids[p])
  /\ calls' = [calls EXCEPT ![p] = Append(@, "delete")]
  /\ touched' = [touched EXCEPT ![p] = @ \cup Changed(index, index')]
  /\ pc' = [pc EXCEPT ![p] = "DONE"]
  /\ ret' = [ret EXCEPT ![p] = saved_object_ids[p]]
  /\ UNCHANGED <<aux, sweep>>
  /\ UNCHANGED <<client, nextEpoch, workflow, root_url, index_epoch,
                 records, saved_object_ids, hits, old_object_ids, outcome,
                 alone>>

\* delete_objects(old_object_ids); expire_old_records returns and
\* index_tutorial returns saved_object_ids.
EOR_Delete(p) ==
  /\ pc[p] = "SWEEP_DELETE"
  /\ index' = Remove(index, old_object_ids[p])
  /\ calls' = [calls EXCEPT ![p] = Append(@, "delete")]
  /\ touched' = [touched EXCEPT ![p] = @ \cup Changed(index, index')]
  /\ pc' = [pc EXCEPT ![p] = "DONE"]
  /\ ret' = [ret EXCEPT ![p] = saved_object_ids[p]]
  /\ UNCHANGED <<aux, sweep>>
  /\ UNCHANGED <<client, nextEpoch, workflow, root_url, index_epoch,
                 records, saved_object_ids, hits, old_object_ids, outcome,
                 alone>>

\* The browse call raises (a request error, a timeout): nothing has been
\* collected, no delete call is made, and the exception leaves
\* expire_old_records and index_tutorial, which has no handler around the
\* sweep.
EOR_BrowseRaises(p) ==
  /\ pc[p] = "SWEEP_BROWSE"
  /\ calls' = [calls EXCEPT ![p] = Append(@, "browse")]
  /\ pc' = [pc EXCEPT ![p] = "RAISED"]
  /\ sweep' = [sweep EXCEPT ![p] = "browse raised"]
  /\ UNCHANGED aux
  /\ UNCHANGED <<client, index, nextEpoch, workflow, root_url,
                 index_epoch, records, saved_object_ids, hits, old_object_ids,
                 ret, outcome, touched, alone>>

\* Mutant of EOR_DeleteRaises: index_tutorial swallows the exception of the
\* sweep and returns the saved ids.
EOR_DeleteRaises_Swallowed(p) ==
  /\ pc[p] = "SWEEP_DELETE"
  /\ \E done \in SUBSET old_object_ids[p] : index' = Remove(index, done)
  /\ calls' = [calls EXCEPT ![p] = Append(@, "delete")]
  /\ touched' = [touched EXCEPT ![p] = @ \cup Changed(index, index')]
  /\ pc' = [pc EXCEPT ![p] = "DONE"]
  /\ ret' = [ret EXCEPT ![p] = saved_object_ids[p]]
  /\ sweep' = [sweep EXCEPT ![p] = "delete raised"]
  /\ UNCHANGED aux
  /\ UNCHANGED <<client, nextEpoch, workflow, root_url, index_epoch,
                 records, saved_object_ids, hits, old_object_ids, outcome,
                 alone>>

\* The delete call raises.  The service may have removed none, some or all
\* of the ids it was given before the call ended (the ids are sent in
\* batches); it removes no other id.  The exception leaves
\* expire_old_records and index_tutorial.
EOR_DeleteRaises(p) ==
  /\ pc[p] = "SWEEP_DELETE"
  /\ \E done \in SUBSET old_object_ids[p] : index' = Remove(index, done)
  /\ calls' = [calls EXCEPT ![p] = Append(@, "delete")]
  /\ touched' = [touched EXCEPT ![p] = @ \cup Changed(index, index')]
  /\ pc' = [pc EXCEPT ![p] = "RAISED"]
  /\ sweep' = [sweep EXCEPT ![p] = "delete raised"]
  /\ UNCHANGED aux
  /\ UNCHANGED <<client, nextEpoch, workflow, root_url, index_epoch,
                 records, saved_object_ids, hits, old_object_ids, ret,
                 outcome, alone>>

----------------------------------------------------------------------------
(***************************************************************************)
(* delete_root_url.                                                        *)
(***************************************************************************)
\* The filter "root_url:<u>" of search_for_records.
RootFilter(idx, u) == RootIds(idx, u)

\* Mutant of ObjectIdsOfRoot: the root_url of a result is not checked.
ObjectIdsOfRoot_NoCheck(hs, u) == {h.objectID : h \in hs}

\* Mutant of ObjectIdsOfRoot: the loop ends at a result of another root
\* (break for continue), here before it has collected anything.
ObjectIdsOfRoot_StopAtMismatch(hs, u) ==
  IF \E x \in hs : x.root_url # u THEN {}
  ELSE {h.objectID : h \in hs}

\* The loop over the browse results: a record of another root is skipped.
ObjectIdsOfRoot(hs, u) ==
  {h.objectID : h \in {x \in hs : x.root_url = u}}

\* The ids of the results the loop has received so far.
Seen(p) == {h.objectID : h \in hits[p]}

\* delete_root_url starts: `object_ids = []`, and search_for_records calls
\* browse_objects_async; the coroutine is suspended until the first page
\* arrives.
DRU_Start(p, u) ==
  /\ Free(p)
  /\ "browse_objects_async" \in Methods(client)
  /\ root_url' = [root_url EXCEPT ![p] = u]
  /\ hits' = [hits EXCEPT ![p] = {}]
  /\ old_object_ids' = [old_object_ids EXCEPT ![p] = {}]
  /\ calls' = [calls EXCEPT ![p] = Append(@, "browse")]
  /\ pc' = [pc EXCEPT ![p] = "DRU_BROWSE"]
  /\ workflow' = [workflow EXCEPT ![p] = "delete_root_url"]
  /\ StartAlone(p, u)
  /\ UNCHANGED <<aux, sweep>>
  /\ UNCHANGED <<client, index, nextEpoch, index_epoch, records,
                 saved_object_ids, ret, outcome, touched>>

\* One page of the browse arrives: results the index holds now and the
\* iteration has not given yet.  The loop body runs on each of them, and the
\* coroutine is suspended again for the next page.
DRU_Browse(p) ==
  /\ pc[p] = "DRU_BROWSE"
  /\ \E res \in BrowseResults(index, RootFilter(index, root_url[p])) :
       /\ res \ Seen(p) # {}
       /\ \E page \in Pages(res \ Seen(p)) :
            hits' = [hits EXCEPT ![p] = @ \cup {Hit(index, i) : i \in page}]
  /\ old_object_ids' = [old_object_ids EXCEPT ![p] =
                          ObjectIdsOfRoot(hits'[p], root_url[p])]
  /\ UNCHANGED <<aux, sweep>>
  /\ UNCHANGED <<client, index, nextEpoch, pc, workflow, root_url,
                 index_epoch, records, saved_object_ids, ret, outcome, calls,
                 touched, alone>>

\* The browse has no further result: the `async for` ends and the run
\* reaches its delete call.
DRU_BrowseEnd(p) ==
  /\ pc[p] = "DRU_BROWSE"
  /\ \E res \in BrowseResults(index, RootFilter(index, root_url[p])) :
       res \ Seen(p) = {}
  /\ pc' = [pc EXCEPT ![p] = "DRU_DELETE"]
  /\ UNCHANGED <<aux, sweep>>
  /\ UNCHANGED <<client, index, nextEpoch, workflow, root_url,
                 index_epoch, records, saved_object_ids, hits, old_object_ids,
                 ret, outcome, calls, touched, alone>>

\* The request for a page raises (a request error, a timeout): the
\* exception leaves delete_root_url, which has no handler; no delete call
\* is made.
DRU_BrowseRaises(p) ==
  /\ pc[p] = "DRU_BROWSE"
  /\ pc' = [pc EXCEPT ![p] = "RAISED"]
  /\ UNCHANGED <<aux, sweep>>
  /\ UNCHANGED <<client, index, nextEpoch, workflow, root_url,
                 index_epoch, records, saved_object_ids, hits, old_object_ids,
                 ret, outcome, calls, touched, alone>>

\* The index object has no browse_objects_async: AttributeError.
DRU_AttributeError(p, u) ==
  /\ Free(p)
  /\ "browse_objects_async" \notin Methods(client)
  /\ root_url' = [root_url EXCEPT ![p] = u]
  /\ pc' = [pc EXCEPT ![p] = "RAISED"]
  /\ workflow' = [workflow EXCEPT ![p] = "delete_root_url"]
  /\ UNCHANGED <<aux, sweep>>
  /\ UNCHANGED <<client, index, nextEpoch, index_epoch, records,
                 saved_object_ids, hits, old_object_ids, ret, outcome, calls,
                 touched, alone>>

\* delete_objects_async(object_ids); return object_ids.
DRU_Delete(p) ==
  /\ pc[p] = "DRU_DELETE"
  /\ index' = Remove(index, old_object_ids[p])
  /\ calls' = [calls EXCEPT ![p] = Append(@, "delete")]
  /\ touched' = [touched EXCEPT ![p] = @ \cup Changed(index, index')]
  /\ pc' = [pc EXCEPT ![p] = "DRU_DONE"]
  /\ ret' = [ret EXCEPT ![p] = old_object_ids[p]]
  /\ UNCHANGED <<aux, sweep>>
  /\ UNCHANGED <<client, nextEpoch, workflow, root_url, index_epoch,
                 records, saved_object_ids, hits, old_object_ids, outcome,
                 alone>>

\* The delete call raises.  The service may have removed none, some or all
\* of the ids it was given; the exception leaves delete_root_url, which
\* returns nothing.
DRU_DeleteRaises(p) ==
  /\ pc[p] = "DRU_DELETE"
  /\ \E done \in SUBSET old_object_ids[p] : index' = Remove(index, done)
  /\ calls' = [calls EXCEPT ![p] = Append(@, "delete")]
  /\ touched' = [touched EXCEPT ![p] = @ \cup Changed(index, index')]
  /\ pc' = [pc EXCEPT ![p] = "RAISED"]
  /\ UNCHANGED <<aux, sweep>>
  /\ UNCHANGED <<client, nextEpoch, workflow, root_url, index_epoch,
                 records, saved_object_ids, hits, old_object_ids, ret,
                 outcome, alone>>

----------------------------------------------------------------------------
(***************************************************************************)
(* The client classes of algolia/client.py, called directly.  The same     *)
(* call is made on an AlgoliaIndex, whose methods pass it to the service   *)
(* (index), and on a MockAlgoliaIndex (saved_objects).                     *)
(***************************************************************************)
\* The objects of a batch, in the order of their anchors.
Objects(u, ks, e) ==
  LET All == [k \in 1..IdsPerRoot |->
                [objectID |-> ObjectId(u, k), root_url |-> u, index_epoch |-> e]]
  IN  SelectSeq(All, LAMBDA o : o.objectID[2] \in ks)

\* MockAlgoliaIndex.save_objects: a copy of every object is appended.
MockSaveObjects(lst, objs) == lst \o objs

\* MockAlgoliaIndex.delete_objects: the list of saved objects is not touched.
MockDeleteObjects(lst, ids) == lst

\* MockAlgoliaIndex.browse_objects yields this many empty dicts.
MockBrowseCount == 5

\* What the methods of AlgoliaIndex return: the responses of the service.
RealResponse(op, ids) ==
  CASE op = "save"   -> [shape |-> "list[BatchResponse]", objectIDs |-> ids,
                         hits |-> 0]
    [] op = "browse" -> [shape |-> "BrowseResponse", objectIDs |-> ids,
                         hits |-> Cardinality(ids)]
    [] op = "delete" -> [shape |-> "list[BatchResponse]", objectIDs |-> ids,
                         hits |-> 0]

\* What the methods of MockAlgoliaIndex return.
MockResponse(op, ids) ==
  CASE op = "save"   -> [shape |-> "MockMultiResponse", objectIDs |-> {},
                         hits |-> 0]
    [] op = "browse" -> [shape |-> "AsyncIterator[dict]", objectIDs |-> {},
                         hits |-> MockBrowseCount]
    [] op = "delete" -> [shape |-> "list[DeletedAtResponse]", objectIDs |-> {},
                         hits |-> Cardinality(ids)]

Responses(op, realIds, mockIds) ==
  [k \in {"AlgoliaIndex", "MockAlgoliaIndex"} |->
     IF k = "AlgoliaIndex" THEN RealResponse(op, realIds)
                           ELSE MockResponse(op, mockIds)]

\* save_objects(objects) on both classes.
CL_Save(u, ks, e) ==
  LET ids == {ObjectId(u, k) : k \in ks} IN
  /\ ncalls < MaxCalls
  /\ index' = Upsert(index, ids, u, e)
  /\ saved_objects' = MockSaveObjects(saved_objects, Objects(u, ks, e))
  /\ response' = Responses("save", ids, ids)
  /\ call' = [op |-> "save", root_url |-> u, ids |-> ids, index_epoch |-> e]
  /\ ncalls' = ncalls + 1
  /\ UNCHANGED <<selVars, secVars, txtVars, urlVars, sweep>>
  /\ UNCHANGED <<client, nextEpoch, pc, workflow, root_url, index_epoch,
                 records, saved_object_ids, hits, old_object_ids, ret, outcome,
                 calls, touched, alone>>

\* browse_objects(params) with the filter "root_url:<u>" on both classes.
CL_Browse(u) ==
  /\ ncalls < MaxCalls
  /\ \E page \in Pages(RootFilter(index, u)) :
       response' = Responses("browse", page, {})
  /\ call' = [op |-> "browse", root_url |-> u, ids |-> {}, index_epoch |-> 0]
  /\ ncalls' = ncalls + 1
  /\ UNCHANGED <<selVars, secVars, txtVars, urlVars, sweep>>
  /\ UNCHANGED <<client, index, saved_objects, nextEpoch, pc, workflow,
                 root_url, index_epoch, records, saved_object_ids, hits,
                 old_object_ids, ret, outcome, calls, touched, alone>>

\* delete_objects(objectids) on both classes.
CL_Delete(u, ks) ==
  LET ids == {ObjectId(u, k) : k \in ks} IN
  /\ ncalls < MaxCalls
  /\ index' = Remove(index, ids)
  /\ saved_objects' = MockDeleteObjects(saved_objects, ids)
  /\ response' = Responses("delete", ids, ids)
  /\ call' = [op |-> "delete", root_url |-> u, ids |-> ids, index_epoch |-> 0]
  /\ ncalls' = ncalls + 1
  /\ UNCHANGED <<selVars, secVars, txtVars, urlVars, sweep>>
  /\ UNCHANGED <<client, nextEpoch, pc, workflow, root_url, index_epoch,
                 records, saved_object_ids, hits, old_object_ids, ret, outcome,
                 calls, touched, alone>>

\* Both clients have been entered on an empty index.
InitClient ==
  /\ client = "AlgoliaIndex"
  /\ index = EmptyIndex
  /\ NoWorkflow
  /\ ClientIdle
  /\ SelectIdle
  /\ TraversalIdle
  /\ CleanIdle
  /\ UrlIdle

NextClient ==
  \E u \in Roots :
    \/ \E ks \in SUBSET Anchors(u) : \E e \in Epochs \ {0} : CL_Save(u, ks, e)
    \/ CL_Browse(u)
    \/ \E ks \in SUBSET Anchors(u) : CL_Delete(u, ks)

SpecClient == InitClient /\ [][NextClient]_vars

----------------------------------------------------------------------------
(***************************************************************************)
(* JupyterBookPage.iter_sections: the choice of the content root.          *)
(*                                                                         *)
(* A parsed page is the sequence of its elements in document order; each   *)
(* element has a tag, an id, classes and a parent (0: the top of the       *)
(* document), which comes before it.                                       *)
(***************************************************************************)
\* The elements a page is made of.
Elements ==
  { [tag |-> "div", id |-> "", class |-> {}],
    [tag |-> "div", id |-> "main-content", class |-> {}],
    [tag |-> "div", id |-> "", class |-> {"main-content"}],
    [tag |-> "main", id |-> "", class |-> {}],
    [tag |-> "div", id |-> "", class |-> {"section"}],
    [tag |-> "article", id |-> "", class |-> {}] }

Docs ==
  UNION { { [n \in 1..len |-> [el |-> els[n], parent |-> par[n]]] :
              els \in [1..len -> Elements],
              par \in {f \in [1..len -> 0..(len - 1)] :
                         \A n \in 1..len : f[n] < n} } :
          len \in 0..MaxNodes }

\* The selectors of iter_sections, in the order of the list: anc is the
\* left part of a descendant selector ("#main-content .section").
None == [kind |-> "-", name |-> ""]
selectors ==
  << [anc |-> [kind |-> "id", name |-> "main-content"],
      self |-> [kind |-> "class", name |-> "section"]],
     [anc |-> None, self |-> [kind |-> "id", name |-> "main-content"]],
     [anc |-> [kind |-> "class", name |-> "main-content"],
      self |-> [kind |-> "class", name |-> "section"]],
     [anc |-> None, self |-> [kind |-> "class", name |-> "main-content"]],
     [anc |-> [kind |-> "tag", name |-> "main"],
      self |-> [kind |-> "class", name |-> "section"]],
     [anc |-> None, self |-> [kind |-> "tag", name |-> "main"]],
     [anc |-> None, self |-> [kind |-> "class", name |-> "section"]],
     [anc |-> None, self |-> [kind |-> "tag", name |-> "article"]] >>

\* An element matches a simple selector (#id, .class, tag).
MatchSimple(el, ss) ==
  CASE ss.kind = "id"    -> el.id = ss.name
    [] ss.kind = "class" -> ss.name \in el.class
    [] ss.kind = "tag"   -> el.tag = ss.name

RECURSIVE Ancestors(_, _)
Ancestors(d, n) ==
  IF d[n].parent = 0 THEN {}
  ELSE {d[n].parent} \cup Ancestors(d, d[n].parent)

\* doc.cssselect(selector): the matching elements, in document order.
CssSelect(d, sel) ==
  LET all == [n \in 1..Len(d) |-> n]
      hit(n) == /\ MatchSimple(d[n].el, sel.self)
                /\ sel.anc # None
                     => \E a \in Ancestors(d, n) : MatchSimple(d[a].el, sel.anc)
  IN  SelectSeq(all, hit)

\* Mutant of FindRoot: the loop has no break, the last selector that
\* matches gives the root.
RECURSIVE FindRoot_NoBreak(_, _, _)
FindRoot_NoBreak(d, k, sofar) ==
  IF k > Len(selectors) THEN sofar
  ELSE LET elements == CssSelect(d, selectors[k])
       IN  IF elements # <<>>
           THEN FindRoot_NoBreak(d, k + 1,
                  [root |-> elements[1], selector |-> k, state |-> "iterating"])
           ELSE FindRoot_NoBreak(d, k + 1, sofar)

\* The loop over the selectors, from selector k on: the first element of
\* the first selector that matches; with no match the warning is logged
\* and the generator returns without a section.
RECURSIVE FindRoot(_, _, _)
FindRoot(d, k, sofar) ==
  IF k > Len(selectors) THEN sofar
  ELSE LET elements == CssSelect(d, selectors[k])
       IN  IF elements # <<>>
           THEN [root |-> elements[1], selector |-> k, state |-> "iterating"]
           ELSE FindRoot(d, k + 1, sofar)

\* root = None before the loop; after it, `if root is None: return`.
NoRoot == [root |-> 0, selector |-> 0, state |-> "empty"]

IterSections ==
  /\ found = NotRun
  /\ found' = FindRoot(doc, 1, NoRoot)
  /\ UNCHANGED <<doc, wfVars, clVars, secVars, txtVars, urlVars>>

InitSelect ==
  /\ client = "IndexService"
  /\ index = EmptyIndex
  /\ NoWorkflow
  /\ ClientIdle
  /\ doc \in Docs
  /\ found = NotRun
  /\ TraversalIdle
  /\ CleanIdle
  /\ UrlIdle

NextSelect == IterSections

SpecSelect == InitSelect /\ [][NextSelect]_vars

----------------------------------------------------------------------------
(***************************************************************************)
(* The traversal of the content root (iter_sphinx_sections, called by      *)
(* iter_sections): the heading stack and the section boundaries.  A        *)
(* heading is named by its place among the headings met (its title); a     *)
(* text by the number of headings met before it.                           *)
(***************************************************************************)
Levels == 1..MaxLevel

\* Pop the entries of level >= L off the top of the stack.
RECURSIVE PopTo(_, _)
PopTo(stk, L) ==
  IF stk = <<>> \/ stk[Len(stk)].level < L THEN stk
  ELSE PopTo(SubSeq(stk, 1, Len(stk) - 1), L)

\* The heading_path snapshot: the titles of the stack in push order.
HeadingPath(stk) == [i \in 1..Len(stk) |-> stk[i].title]

\* A section boundary: a non-empty buffer is flushed as a section with the
\* heading_path of the stack as it is before the boundary heading is pushed.
Flush(secs, stk, buf, n) ==
  IF buf = <<>> THEN secs
  ELSE Append(secs, [heading_path |-> HeadingPath(stk), content |-> buf,
                     at |-> n])

RECURSIVE TextsIn(_)
TextsIn(secs) ==
  IF secs = <<>> THEN 0 ELSE Len(Head(secs).content) + TextsIn(Tail(secs))

\* Headings and texts met so far.
EventsMet == Len(seen) + Len(buffer) + TextsIn(sections)

\* A heading of level L is met.
SEC_Heading(L) ==
  /\ walking /\ EventsMet < MaxEvents
  /\ sections' = Flush(sections, headers, buffer, Len(seen))
  /\ buffer' = <<>>
  /\ headers' = Append(PopTo(headers, L),
                       [level |-> L, title |-> Len(seen) + 1])
  /\ seen' = Append(seen, L)
  /\ UNCHANGED <<walking, wfVars, clVars, selVars, txtVars, urlVars>>

\* Text is met: it goes to the buffer.
SEC_Text ==
  /\ walking /\ EventsMet < MaxEvents
  /\ buffer' = Append(buffer, Len(seen))
  /\ UNCHANGED <<headers, sections, seen, walking, wfVars, clVars, selVars,
                 txtVars, urlVars>>

\* The traversal ends.
SEC_End ==
  /\ walking
  /\ sections' = Flush(sections, headers, buffer, Len(seen))
  /\ buffer' = <<>>
  /\ walking' = FALSE
  /\ UNCHANGED <<headers, seen, wfVars, clVars, selVars, txtVars, urlVars>>

InitSections ==
  /\ client = "IndexService"
  /\ index = EmptyIndex
  /\ NoWorkflow
  /\ ClientIdle
  /\ SelectIdle
  /\ TraversalIdle
  /\ CleanIdle
  /\ UrlIdle

NextSections ==
  \/ \E L \in Levels : SEC_Heading(L)
  \/ SEC_Text
  \/ SEC_End

SpecSections == InitSections /\ [][NextSections]_vars

----------------------------------------------------------------------------
(***************************************************************************)
(* JupyterBookPage._clean_content.  A text is a sequence of characters:    *)
(* the letters "a" and "n", the space "SP", the backslash "BS", the        *)
(* newline "NL" and the tab "TAB".                                         *)
(***************************************************************************)
Chars == {"a", "n", "SP", "BS", "NL", "TAB"}
Whitespace == {"SP", "NL", "TAB"}

Texts == UNION {[1..len -> Chars] : len \in 0..MaxLen}

\* x.replace(old, " ") for a one-character old.
Replace1(x, old) == [i \in 1..Len(x) |-> IF x[i] = old THEN "SP" ELSE x[i]]

\* x.replace(r"\n", " "): every occurrence of the two characters backslash,
\* n, found from left to right, becomes one space.
RECURSIVE ReplaceBSn(_)
ReplaceBSn(x) ==
  IF Len(x) < 2 THEN x
  ELSE IF x[1] = "BS" /\ x[2] = "n"
       THEN <<"SP">> \o ReplaceBSn(SubSeq(x, 3, Len(x)))
       ELSE <<x[1]>> \o ReplaceBSn(Tail(x))

\* x.strip(): leading and trailing whitespace is removed.
RECURSIVE LStrip(_)
LStrip(x) ==
  IF x # <<>> /\ Head(x) \in Whitespace THEN LStrip(Tail(x)) ELSE x

RECURSIVE RStrip(_)
RStrip(x) ==
  IF x # <<>> /\ x[Len(x)] \in Whitespace
  THEN RStrip(SubSeq(x, 1, Len(x) - 1)) ELSE x

Strip(x) == RStrip(LStrip(x))

\* Mutant of CleanContent: the backslashes are replaced first, so that no
\* backslash-n pair is left to replace.
CleanContent_BackslashFirst(x) ==
  Strip(Replace1(ReplaceBSn(Replace1(x, "BS")), "NL"))

\* The four statements of _clean_content, in their order.
CleanContent(x) ==
  Strip(Replace1(Replace1(ReplaceBSn(x), "NL"), "BS"))

TXT_Clean ==
  /\ cleaned = NotCleaned
  /\ cleaned' = CleanContent(text)
  /\ UNCHANGED <<text, wfVars, clVars, selVars, secVars, urlVars>>

InitClean ==
  /\ client = "IndexService"
  /\ index = EmptyIndex
  /\ NoWorkflow
  /\ ClientIdle
  /\ SelectIdle
  /\ TraversalIdle
  /\ text \in Texts
  /\ cleaned = NotCleaned
  /\ UrlIdle

NextClean == TXT_Clean

SpecClean == InitClean /\ [][NextClean]_vars

----------------------------------------------------------------------------
\* JupyterBookMetadata.validate_root_url (reducers/jupyterbook.py).
\*
\* A URL is the string  scheme "://" netloc rest,  where rest is a sequence
\* of tokens: the delimiters "/", ";", "?" and "#", a name "a" that does not
\* end in ".html", and a name "p.html" that does.  Names that follow each
\* other make one longer name.
Schemes == {"http", "https", "HTTPS"}
Netlocs == {"example.com", "Example.COM:8080"}
UrlTokens == {"/", "a", "p.html", ";", "?", "#"}
Rests == UNION {[1..n -> UrlTokens] : n \in 0..MaxUrlLen}

\* The URLs the HttpUrl field accepts: an http(s) scheme in either case, a
\* host, then optionally a path that starts with "/", a query and a fragment
\* (which holds no further "#").
Accepted(u) ==
  /\ u.rest # <<>> => u.rest[1] \in {"/", "?", "#"}
  /\ Cardinality({i \in DOMAIN u.rest : u.rest[i] = "#"}) <= 1
Urls ==
  {u \in [scheme : Schemes, netloc : Netlocs, rest : Rests] : Accepted(u)}

\* str.find and str.rfind of one delimiter, 0 when it is absent.
Find(str, t, from) ==
  LET at == {i \in from..Len(str) : str[i] = t}
  IN  IF at = {} THEN 0 ELSE CHOOSE i \in at : \A j \in at : i <= j
RFind(str, t) ==
  LET at == {i \in 1..Len(str) : str[i] = t}
  IN  IF at = {} THEN 0 ELSE CHOOSE i \in at : \A j \in at : i >= j
Before(str, i) == IF i = 0 THEN str ELSE SubSeq(str, 1, i - 1)
After(str, i) == IF i = 0 THEN <<>> ELSE SubSeq(str, i + 1, Len(str))

\* urllib.parse lowers the scheme and leaves the netloc as written.
Lower(scheme) == IF scheme = "HTTPS" THEN "https" ELSE scheme

\* urllib.parse.urlparse: the fragment follows the first "#", the query the
\* first "?" before it, the params the first ";" of the last path segment.
UrlParse(u) ==
  LET h == Find(u.rest, "#", 1)
      nofrag == Before(u.rest, h)
      q == Find(nofrag, "?", 1)
      noquery == Before(nofrag, q)
      slash == RFind(noquery, "/")
      semi == Find(noquery, ";", IF slash = 0 THEN 1 ELSE slash)
  IN  [scheme |-> Lower(u.scheme), netloc |-> u.netloc,
       path |-> Before(noquery, semi), params |-> After(noquery, semi),
       query |-> After(nofrag, q), fragment |-> After(u.rest, h)]

\* urllib.parse.urlunparse for a URL with a netloc.
UrlUnparse(c) ==
  LET withparams ==
        IF c.params # <<>> THEN c.path \o <<";">> \o c.params ELSE c.path
      rooted ==
        IF withparams # <<>> /\ withparams[1] # "/"
        THEN <<"/">> \o withparams ELSE withparams
      withquery ==
        IF c.query # <<>> THEN rooted \o <<"?">> \o c.query ELSE rooted
      withfragment ==
        IF c.fragment # <<>> THEN withquery \o <<"#">> \o c.fragment
        ELSE withquery
  IN  [scheme |-> c.scheme, netloc |-> c.netloc, rest |-> withfragment]

\* path.split("/") and "/".join(parts).
RECURSIVE SplitPath(_)
SplitPath(path) ==
  LET i == Find(path, "/", 1)
  IN  IF i = 0 THEN <<path>>
      ELSE <<Before(path, i)>> \o SplitPath(After(path, i))
RECURSIVE JoinPath(_)
JoinPath(parts) ==
  IF parts = <<>> THEN <<>>
  ELSE IF Len(parts) = 1 THEN parts[1]
  ELSE parts[1] \o <<"/">> \o JoinPath(Tail(parts))

\* p.endswith(".html") and path.endswith("/").
EndsWithHtml(part) == part # <<>> /\ part[Len(part)] = "p.html"
EndsWithSlash(path) == path # <<>> /\ path[Len(path)] = "/"

\* Mutant of ValidateRootUrl: the "/" is appended whether or not the path
\* ends in one.
ValidateRootUrl_AlwaysSlash(u) ==
  LET parsed_url == UrlParse(u)
      joined == JoinPath(SelectSeq(SplitPath(parsed_url.path),
                                   LAMBDA part : ~EndsWithHtml(part)))
      path == joined \o <<"/">>
  IN  UrlUnparse([scheme |-> parsed_url.scheme, netloc |-> parsed_url.netloc,
                  path |-> path, params |-> <<>>, query |-> <<>>,
                  fragment |-> <<>>])

\* Mutant of ValidateRootUrl: the query and the fragment are carried over.
ValidateRootUrl_QueryKept(u) ==
  LET parsed_url == UrlParse(u)
      joined == JoinPath(SelectSeq(SplitPath(parsed_url.path),
                                   LAMBDA part : ~EndsWithHtml(part)))
      path == IF EndsWithSlash(joined) THEN joined ELSE joined \o <<"/">>
  IN  UrlUnparse([scheme |-> parsed_url.scheme, netloc |-> parsed_url.netloc,
                  path |-> path, params |-> <<>>,
                  query |-> parsed_url.query,
                  fragment |-> parsed_url.fragment])

\* validate_root_url: drop the path segments that end in ".html", end the
\* path in "/", and rebuild the URL from scheme, netloc and path alone.
ValidateRootUrl(u) ==
  LET parsed_url == UrlParse(u)
      joined == JoinPath(SelectSeq(SplitPath(parsed_url.path),
                                   LAMBDA part : ~EndsWithHtml(part)))
      path == IF EndsWithSlash(joined) THEN joined ELSE joined \o <<"/">>
  IN  UrlUnparse([scheme |-> parsed_url.scheme, netloc |-> parsed_url.netloc,
                  path |-> path, params |-> <<>>, query |-> <<>>,
                  fragment |-> <<>>])

\* JupyterBookMetadata(root_url=v): the validator's result is stored.
URL_Validate ==
  /\ new_url = NoUrlYet
  /\ new_url' = ValidateRootUrl(v)
  /\ UNCHANGED <<v, revalidated, wfVars, clVars, selVars, secVars, txtVars>>

\* The stored root_url is given to JupyterBookMetadata again (a model that
\* is rebuilt from its own fields): the validator runs on its own result.
URL_Revalidate ==
  /\ new_url # NoUrlYet
  /\ revalidated = NoUrlYet
  /\ revalidated' = ValidateRootUrl(new_url)
  /\ UNCHANGED <<v, new_url, wfVars, clVars, selVars, secVars, txtVars>>

InitUrl ==
  /\ client = "IndexService"
  /\ index = EmptyIndex
  /\ NoWorkflow
  /\ ClientIdle
  /\ SelectIdle
  /\ TraversalIdle
  /\ CleanIdle
  /\ v \in Urls
  /\ new_url = NoUrlYet
  /\ revalidated = NoUrlYet

NextUrl == URL_Validate \/ URL_Revalidate

SpecUrl == InitUrl /\ [][NextUrl]_vars

----------------------------------------------------------------------------
Next ==
  \E p \in Procs :
    \/ \E u \in Roots : \E ks \in SUBSET Anchors(u) : IT_Build(p, u, ks)
    \/ IT_Save(p)
    \/ IT_SaveRequestException(p)
    \/ IT_SaveTimeout(p)
    \/ IT_SaveAttributeError(p)
    \/ EOR_Browse(p)
    \/ EOR_BrowseRaises(p)
    \/ EOR_Delete(p)
    \/ EOR_DeleteRaises(p)
    \/ \E u \in Roots : DRU_Start(p, u)
    \/ DRU_Browse(p)
    \/ DRU_BrowseEnd(p)
    \/ DRU_BrowseRaises(p)
    \/ \E u \in Roots : DRU_AttributeError(p, u)
    \/ DRU_Delete(p)
    \/ DRU_DeleteRaises(p)

Spec == Init /\ [][Next]_vars

----------------------------------------------------------------------------
(***************************************************************************)
(* Properties.                                                             *)
(***************************************************************************)
\* Process p takes the step on which its index_tutorial returns normally.
Completes(p) == workflow[p] = "index_tutorial" /\ pc[p] # "DONE" /\ pc'[p] = "DONE"

\* The records of root u all belong to the batch of p and carry its epoch.
ExactlyBatch(idx, p) ==
  /\ RootIds(idx, root_url[p]) = records[p]
  /\ \A i \in RootIds(idx, root_url[p]) : idx[i].index_epoch = index_epoch[p]

\* The browse of p returned only records that match its filter.
FilterHonoured(p) ==
  \A h \in hits[p] : h.root_url = root_url[p] /\ h.index_epoch # index_epoch[p]

\* C1: with the runs on a root executed one at a time, when index_tutorial
\* completes a run whose save persisted at least one id, the index holds for
\* the root exactly the records of that run's batch, all stamped with the
\* run's epoch; no record of an earlier run remains.
\* It is stated for the runs whose browse returned only records that match
\* the filter, so that a violation does not rest on an imperfect filter.
C1_SweepLeavesExactlyBatch ==
  [][\A p \in Procs :
       (Completes(p) /\ alone[p] /\ saved_object_ids[p] # {} /\ FilterHonoured(p))
         => ExactlyBatch(index', p)]_vars

\* C2: a run whose save persisted zero ids (an empty batch) issues no browse
\* and no delete call, changes no record of the index and returns the empty
\* list.
C2_EmptySaveNoSweep ==
  \A p \in Procs :
    (pc[p] = "DONE" /\ saved_object_ids[p] = {})
      => calls[p] = <<"save">> /\ touched[p] = {} /\ ret[p] = {}

\* Witness of C2: a run with an empty batch is done while records of earlier
\* runs of its root are in the index.
C2_Witness ==
  \E p \in Procs :
    /\ pc[p] = "DONE" /\ saved_object_ids[p] = {} /\ calls[p] = <<"save">>
    /\ Cardinality(RootIds(index, root_url[p])) >= 2

\* C3: when the save call raises RequestException, index_tutorial ends in
\* FAILED with an empty id list, has issued no browse and no delete call,
\* and has changed no record of the index.
C3_SaveFailureNoSweep ==
  \A p \in Procs :
    outcome[p] = "RequestException"
      => /\ pc[p] = "FAILED"
         /\ ret[p] = {}
         /\ calls[p] = <<"save">>
         /\ touched[p] = {}

\* Witness of C3: the save of a non-empty batch failed while the root has
\* records of earlier runs.
C3_Witness ==
  \E p \in Procs :
    /\ outcome[p] = "RequestException" /\ pc[p] = "FAILED"
    /\ records[p] # {}
    /\ RootIds(index, root_url[p]) # {}

\* C4 as claimed: a timeout or cancellation of the save call is handled like
\* a save failure, the run ends in FAILED and reports an empty id list.
C4_TimeoutLikeFailure ==
  \A p \in Procs :
    outcome[p] = "timeout"
      => pc[p] = "FAILED" /\ ret[p] = {} /\ calls[p] = <<"save">>

\* C4 as amended: after a timeout or cancellation of the save call no sweep
\* is attempted (no browse, no delete), as after a save failure, but the run
\* does not end in FAILED with an empty list: the exception leaves
\* index_tutorial.
C4_TimeoutPropagates ==
  \A p \in Procs :
    outcome[p] = "timeout"
      => pc[p] = "RAISED" /\ calls[p] = <<"save">>

\* Witness of C4: the save of a non-empty batch timed out, the run has
\* raised, and stale records of the root are still in the index.
C4_Witness ==
  \E p \in Procs :
    /\ outcome[p] = "timeout" /\ pc[p] = "RAISED"
    /\ records[p] # {}
    /\ \E i \in RootIds(index, root_url[p]) : index[i].index_epoch # index_epoch[p]

\* Process p takes a step of index_tutorial.
StepOfRun(p) == workflow[p] = "index_tutorial" /\ pc'[p] # pc[p]

\* C5: with the runs on a root serialized and no delete_root_url, a root
\* that has a record in the index keeps at least one: no step of a run that
\* is alone on its root turns a non-empty root into an empty one, be it the
\* save, the sweep that follows it, or the end of a failed or empty run.
C5_RootNeverEmptied ==
  [][\A p \in Procs :
       (StepOfRun(p) /\ alone[p])
         => \A u \in Roots :
              RootIds(index, u) # {} => RootIds(index', u) # {}]_vars

\* Witness of C5: a serialized run has swept a stale record of its root and
\* the root still has records.
C5_Witness ==
  \E p \in Procs :
    /\ pc[p] = "DONE" /\ alone[p]
    /\ touched[p] \ records[p] # {}
    /\ RootIds(index, root_url[p]) # {}

\* C6: the index calls of one run are issued in the order save, browse,
\* delete; the browse and the delete come only after the save call has
\* returned a response, and no save follows them.
C6_SaveBeforeSweep ==
  \A p \in Procs :
    workflow[p] = "index_tutorial"
      => /\ calls[p] \in {<<>>, <<"save">>, <<"save", "browse">>,
                          <<"save", "browse", "delete">>}
         /\ Len(calls[p]) >= 2 => outcome[p] = "response"
         /\ pc[p] = "SAVE" => calls[p] = <<>>
         /\ pc[p] = "DONE" => calls[p] \in {<<"save">>, <<"save", "browse", "delete">>}

\* Witness of C6: a run is done after a save, a browse and a delete call.
C6_Witness ==
  \E p \in Procs :
    /\ pc[p] = "DONE" /\ calls[p] = <<"save", "browse", "delete">>
    /\ touched[p] \ records[p] # {}

\* Process p takes the step of the delete call of its sweep.
SweepDeletes(p) == pc[p] = "SWEEP_DELETE" /\ pc'[p] = "DONE"

\* A hit the sweep of p has to skip: of the current epoch, or of another root.
ToSkip(p, h) == h.index_epoch = index_epoch[p] \/ h.root_url # root_url[p]

\* C7: whatever the browse returned, the delete call of expire_old_records
\* contains no id of a hit whose index_epoch is the current epoch or whose
\* root_url is another root; the record of such a hit is in the index after
\* the delete call as it was before.
C7_SweepSkipsCurrentAndForeign ==
  [][\A p \in Procs :
       SweepDeletes(p)
         => \A h \in hits[p] :
              ToSkip(p, h)
                => /\ h.objectID \notin old_object_ids[p]
                   /\ index'[h.objectID] = index[h.objectID]]_vars

\* Witness of C7: a sweep is done whose browse returned a record to skip,
\* and that record is in the index as browsed.
C7_Witness ==
  \E p \in Procs :
    /\ pc[p] = "DONE" /\ calls[p] = <<"save", "browse", "delete">>
    /\ \E h \in hits[p] :
         /\ ToSkip(p, h)
         /\ index[h.objectID] = Rec(h.root_url, h.index_epoch)

\* Process p takes the step that ends the browse of delete_root_url, the
\* delete step of delete_root_url that returns.
DRU_Browses(p) == pc[p] = "DRU_BROWSE" /\ pc'[p] = "DRU_DELETE"
DRU_Deletes(p) == pc[p] = "DRU_DELETE" /\ pc'[p] = "DRU_DONE"

\* C8: delete_root_url(R) collects, page by page, the ids of the records of
\* root R, whatever their epoch: when its browse ends it has the id of every
\* record of R in the index, and only ids of records of R.  A call that
\* returns has returned the ids it collected, deleted exactly the records
\* stored under them and left the record of every other root as it was; run
\* alone on R, it returns the ids of all records of R and leaves none of
\* them.
C8_DeleteRootExact ==
  [][\A p \in Procs :
       /\ DRU_Browses(p)
            => /\ RootIds(index, root_url[p]) \subseteq old_object_ids'[p]
               /\ \A i \in old_object_ids'[p] :
                    \E h \in hits'[p] :
                      h.objectID = i /\ h.root_url = root_url[p]
               /\ alone[p] => old_object_ids'[p] = RootIds(index, root_url[p])
       /\ DRU_Deletes(p)
            => /\ ret'[p] = old_object_ids[p]
               /\ \A i \in ObjectIds :
                    index'[i] = IF i \in ret'[p] THEN NoRec ELSE index[i]
               /\ \A i \in Stored(index) :
                    index[i].root_url # root_url[p] => index'[i] = index[i]
               /\ alone[p]
                    => /\ ret'[p] = RootIds(index, root_url[p])
                       /\ RootIds(index', root_url[p]) = {}]_vars

\* Witness of C8: delete_root_url has returned the ids of records of two
\* epochs, its root has no record left and the other root has one.
C8_Witness ==
  \E p \in Procs :
    /\ pc[p] = "DRU_DONE" /\ alone[p]
    /\ \E g, h \in hits[p] :
         /\ g.index_epoch # h.index_epoch
         /\ {g.objectID, h.objectID} \subseteq ret[p]
    /\ RootIds(index, root_url[p]) = {}
    /\ \E u \in Roots \ {root_url[p]} : RootIds(index, u) # {}

\* C9: in delete_root_url(R) a browse result of another root is skipped: its
\* id is not in the list passed to the delete call and returned, and its
\* record is not changed; the id of every result of root R is in the list.
C9_DeleteRootSkipsForeign ==
  \A p \in Procs :
    pc[p] \in {"DRU_BROWSE", "DRU_DELETE", "DRU_DONE"}
      => \A h \in hits[p] :
           /\ h.root_url # root_url[p]
                => /\ h.objectID \notin old_object_ids[p]
                   /\ h.objectID \notin touched[p]
                   /\ pc[p] = "DRU_DONE" => h.objectID \notin ret[p]
           /\ h.root_url = root_url[p]
                => /\ h.objectID \in old_object_ids[p]
                   /\ pc[p] = "DRU_DONE" => h.objectID \in ret[p]

\* Witness of C9: delete_root_url is done, its browse returned a record of
\* another root, which is still in the index, and records of its root,
\* which are deleted.
C9_Witness ==
  \E p \in Procs :
    /\ pc[p] = "DRU_DONE"
    /\ \E h \in hits[p] : h.root_url # root_url[p] /\ index[h.objectID] # NoRec
    /\ \E h \in hits[p] : h.root_url = root_url[p] /\ h.objectID \in ret[p]
                          /\ index[h.objectID] = NoRec

\* The batch of p is in the index, stamped with the epoch of p.
BatchStored(idx, p) ==
  \A i \in records[p] : idx[i] = Rec(root_url[p], index_epoch[p])

\* C10: a run that saved a batch can complete with records of the batch
\* missing from the index only when another workflow on the same root was
\* in flight during the run; serialized runs complete with their batch in
\* the index.
C10_ShortfallOnlyWhenInterleaved ==
  [][\A p \in Procs :
       (Completes(p) /\ saved_object_ids[p] # {} /\ ~BatchStored(index', p))
         => ~alone[p]]_vars

\* Witness of C10: two runs on the same root, each of which saved a
\* non-empty batch and swept, are both done, and the root has no record.
C10_Witness ==
  \E p, q \in Procs :
    /\ p # q
    /\ pc[p] = "DONE" /\ pc[q] = "DONE"
    /\ root_url[p] = root_url[q]
    /\ saved_object_ids[p] # {} /\ saved_object_ids[q] # {}
    /\ \E i \in touched[p] : i \in records[q]
    /\ RootIds(index, root_url[p]) = {}

\* C11: runs of index_tutorial on different roots interleave without
\* interference: a step of the run on root R (its save, its sweep) changes
\* only object ids whose record, before and after, has root_url R; the
\* records of every other root are left as they were, so the records of a
\* root change only by the steps of the workflows on that root.
C11_DifferentRootsIndependent ==
  [][\A p \in Procs :
       StepOfRun(p)
         => \A i \in ObjectIds :
              index'[i] # index[i]
                => /\ index[i] # NoRec => index[i].root_url = root_url[p]
                   /\ index'[i] # NoRec => index'[i].root_url = root_url[p]]_vars

\* Witness of C11: the run of p has saved and swept while the run of q on
\* another root was in flight; the browse of p returned a record q had
\* saved, and that record is in the index with the epoch of q.
C11_Witness ==
  \E p, q \in Procs :
    /\ root_url[p] # root_url[q]
    /\ pc[p] = "DONE" /\ calls[p] = <<"save", "browse", "delete">>
    /\ touched[p] # {}
    /\ pc[q] \in {"SWEEP_BROWSE", "SWEEP_DELETE"}
    /\ \E h \in hits[p] :
         /\ h.root_url = root_url[q] /\ h.index_epoch = index_epoch[q]
         /\ index[h.objectID] = Rec(root_url[q], index_epoch[q])

\* C12: a run of index_tutorial whose index service answers (no timeout, no
\* cancellation) ends in DONE or FAILED and in no other way; a run whose
\* save persisted at least one id has swept when it ends, it ends in DONE
\* and returns exactly the ids persisted by the save.
C12_RunEndsDoneOrFailed ==
  \A p \in Procs :
    (workflow[p] = "index_tutorial" /\ ~InFlight(p) /\ outcome[p] # "timeout")
      => /\ pc[p] \in {"DONE", "FAILED"}
         /\ saved_object_ids[p] # {}
              => /\ pc[p] = "DONE"
                 /\ calls[p] = <<"save", "browse", "delete">>
                 /\ ret[p] = saved_object_ids[p]

\* Process p takes the BUILD step, the save step that returns a response,
\* the browse step of its sweep.
Builds(p) == pc[p] = "idle" /\ pc'[p] = "SAVE"
Saves(p) == pc[p] = "SAVE" /\ outcome'[p] = "response"
SweepBrowses(p) == pc[p] = "SWEEP_BROWSE" /\ pc'[p] = "SWEEP_DELETE"

\* C13: a run mints exactly one epoch, at BUILD, and keeps it to its end;
\* the save stamps every record of the batch with it and the sweep compares
\* the hits against the same epoch; no two runs have the same epoch (runs
\* one after the other on one root, runs on different roots), and no run
\* has the epoch of the records earlier crawls left.
C13_OneFreshEpochPerRun ==
  [][/\ \A p \in Procs :
          /\ Builds(p) => /\ nextEpoch' = nextEpoch + 1
                          /\ index_epoch'[p] = nextEpoch'
                          /\ \A i \in Stored(index) :
                               index[i].index_epoch # index_epoch'[p]
          /\ ~Builds(p) => index_epoch'[p] = index_epoch[p]
          /\ Saves(p) => \A i \in records[p] :
                            index'[i] = Rec(root_url[p], index_epoch[p])
          /\ SweepBrowses(p)
               => \A h \in hits'[p] :
                    h.index_epoch = index_epoch[p]
                      => h.objectID \notin old_object_ids'[p]
     /\ \A p, q \in Procs :
          (p # q /\ workflow'[p] = "index_tutorial"
                 /\ workflow'[q] = "index_tutorial")
            => index_epoch'[p] # index_epoch'[q]]_vars

\* Witness of C13: two runs on one root, one after the other, are done with
\* different epochs; the later one has swept a record the earlier one had
\* stamped, and its own batch is in the index with its epoch.
C13_Witness ==
  \E p, q \in Procs :
    /\ p # q /\ root_url[p] = root_url[q]
    /\ pc[p] = "DONE" /\ pc[q] = "DONE" /\ alone[p] /\ alone[q]
    /\ index_epoch[p] # index_epoch[q]
    /\ (touched[q] \cap records[p]) \ records[q] # {}
    /\ records[q] # {} /\ BatchStored(index, q)

\* The step is a direct save call that repeats the call before it.
SaveRetried ==
  call.op = "save" /\ call' = call /\ ncalls' = ncalls + 1

\* The object ids stored in the list of the mock.
MockStoredIds == {saved_objects[n].objectID : n \in DOMAIN saved_objects}

\* C14: saving is idempotent at the record level: a save call repeated
\* with the same batch leaves the store of either client class as the first
\* call left it, with one stored record per object id.
C14_SaveIdempotent ==
  [][SaveRetried
       => /\ index' = index
          /\ saved_objects' = saved_objects
          /\ Len(saved_objects') = Cardinality(MockStoredIds')]_vars

\* The elements of the page that selector k matches.
Matching(k) ==
  {n \in 1..Len(doc) :
     /\ MatchSimple(doc[n].el, selectors[k].self)
     /\ selectors[k].anc # None
          => \E a \in Ancestors(doc, n) : MatchSimple(doc[a].el, selectors[k].anc)}

\* Element n comes first in document order among the elements in S.
First(n, S) == n \in S /\ \A m \in S : n <= m

\* C15: iter_sections takes as content root the first element matched by
\* the first selector of the list that matches anything: no selector before
\* it in the list matches an element; when no selector matches, it yields
\* nothing and raises nothing.
C15_FirstMatchingSelectorWins ==
  found # NotRun
    => /\ found.state = "iterating"
            => /\ found.selector \in 1..Len(selectors)
               /\ \A j \in 1..(found.selector - 1) : Matching(j) = {}
               /\ First(found.root, Matching(found.selector))
       /\ found.state = "empty"
            <=> \A j \in 1..Len(selectors) : Matching(j) = {}
       /\ found.state \in {"iterating", "empty"}

\* Witness of C15: the root comes from a selector that is not the first of
\* the list, a later selector matches another element that comes earlier in
\* the page, and the selector matches a second element after the root.
C15_Witness ==
  /\ found.state = "iterating" /\ found.selector > 1
  /\ \E j \in (found.selector + 1)..Len(selectors) :
       \E n \in Matching(j) : n < found.root
  /\ \E n \in Matching(found.selector) : n > found.root

\* The heading that encloses heading n: the last heading before n of a lower
\* level (0: none).
Enclosing(sn, n) ==
  LET lower == {m \in 1..(n - 1) : sn[m] < sn[n]}
  IN  IF lower = {} THEN 0 ELSE CHOOSE m \in lower : \A k \in lower : k <= m

\* The headings that enclose heading n, outermost first, and n itself.
RECURSIVE PathTo(_, _)
PathTo(sn, n) ==
  IF n = 0 THEN <<>> ELSE Append(PathTo(sn, Enclosing(sn, n)), n)

\* C16: the levels of the heading stack are strictly increasing at all
\* times; the stack, and the heading_path of every section, is the chain of
\* the headings that enclose the last heading met; for the headings H1, H2,
\* H3, H2 the section under the second H2 has heading_path [H1, second H2].
C16_HeadingStackNested ==
  /\ \A i, j \in DOMAIN headers :
       i < j => headers[i].level < headers[j].level
  /\ HeadingPath(headers) = PathTo(seen, Len(seen))
  /\ \A n \in DOMAIN sections :
       /\ sections[n].heading_path = PathTo(seen, sections[n].at)
       /\ SubSeq(seen, 1, sections[n].at) = <<1, 2, 3, 2>>
            => sections[n].heading_path = <<1, 4>>

\* Witness of C16: after the headings H1, H2, H3, H2 and a text the section
\* under the second H2 has been yielded.
C16_Witness ==
  \E n \in DOMAIN sections :
    /\ sections[n].at = 4
    /\ SubSeq(seen, 1, 4) = <<1, 2, 3, 2>>
    /\ sections[n].heading_path = <<1, 4>>

\* The characters of x at the places in P, in their order.
RECURSIVE Pick(_, _, _)
Pick(x, P, i) ==
  IF i > Len(x) THEN <<>>
  ELSE (IF i \in P THEN <<x[i]>> ELSE <<>>) \o Pick(x, P, i + 1)

\* The places of x that hold a letter which is not the n of a backslash-n
\* pair.
LetterPlaces(x) ==
  {i \in 1..Len(x) :
     \/ x[i] = "a"
     \/ x[i] = "n" /\ (i = 1 \/ x[i - 1] # "BS")}

\* The places of x that hold no whitespace.
InkPlaces(x) == {i \in 1..Len(x) : x[i] \notin Whitespace}

\* C17: the result of _clean_content contains no newline and no backslash,
\* has no leading and no trailing whitespace, and its characters other than
\* the spaces are the letters of the input that are not part of a
\* backslash-n pair, in their original order.
C17_CleanContent ==
  cleaned # NotCleaned
    => /\ \A i \in 1..Len(cleaned) : cleaned[i] \notin {"NL", "BS"}
       /\ cleaned # <<>>
            => /\ cleaned[1] \notin Whitespace
               /\ cleaned[Len(cleaned)] \notin Whitespace
       /\ Pick(cleaned, InkPlaces(cleaned), 1)
            = Pick(text, LetterPlaces(text), 1)

\* Witness of C17: a text with a backslash-n pair between letters and
\* whitespace at an end has been cleaned to the letters with one space
\* between them.
C17_Witness ==
  /\ cleaned = <<"a", "SP", "a">>
  /\ \E i \in 1..(Len(text) - 1) : text[i] = "BS" /\ text[i + 1] = "n"
  /\ text[Len(text)] \in Whitespace

\* C18: the cleaned text has collapsed whitespace: it never contains two
\* whitespace characters in a row.
C18_WhitespaceCollapsed ==
  cleaned # NotCleaned
    => \A i \in 1..(Len(cleaned) - 1) :
         ~(cleaned[i] \in Whitespace /\ cleaned[i + 1] \in Whitespace)

\* C19: for every accepted input URL, the root_url stored in
\* JupyterBookMetadata ends in "/", has empty params, query and fragment, and
\* keeps the scheme and the host of the input (the scheme as urllib reads it,
\* that is, in lower case).
C19_RootUrlNormalized ==
  new_url # NoUrlYet =>
    /\ EndsWithSlash(new_url.rest)
    /\ UrlParse(new_url).params = <<>>
    /\ UrlParse(new_url).query = <<>>
    /\ UrlParse(new_url).fragment = <<>>
    /\ UrlParse(new_url).scheme = UrlParse(v).scheme
    /\ UrlParse(new_url).netloc = UrlParse(v).netloc

\* An upper-case scheme, a page name that is dropped and a query that is
\* cleared: the stored URL is the bare site root.
C19_Witness ==
  /\ new_url # NoUrlYet
  /\ v.scheme = "HTTPS"
  /\ UrlParse(v).query # <<>>
  /\ \E i \in DOMAIN SplitPath(UrlParse(v).path) :
       EndsWithHtml(SplitPath(UrlParse(v).path)[i])
  /\ ~EndsWithSlash(UrlParse(v).path)
  /\ new_url.rest = <<"/">>

\* C20: MockAlgoliaIndex is a drop-in replacement for AlgoliaIndex: after the
\* same calls both classes have answered with a result of the same shape and
\* hold the same records.
C20_MockMatchesAlgoliaIndex ==
  /\ response["MockAlgoliaIndex"] = response["AlgoliaIndex"]
  /\ MockStoredIds = Stored(index)

\* The sweep of p browses and runs its loop over the hits.
SweepCollects(p) == pc[p] = "SWEEP_BROWSE" /\ pc'[p] = "SWEEP_DELETE"

\* C21: the sweep collects the stale records from the whole browse result:
\* the ids it collects for the delete call are the ids of all the records of
\* its root stored with another epoch when it browses, however many pages
\* they span, not only those of the first page.  It is stated for the
\* browses that returned only records that match the filter.
C21_SweepCollectsWholeResult ==
  [][\A p \in Procs :
       (SweepCollects(p) /\ FilterHonoured(p)')
         => old_object_ids'[p] =
              ExpireFilter(index, root_url[p], index_epoch[p])]_vars

\* A call of the sweep of p raises.
SweepCallRaises(p) ==
  pc[p] \in {"SWEEP_BROWSE", "SWEEP_DELETE"} /\ sweep'[p] # sweep[p]

\* C22: when the browse or the delete call of the sweep raises after a save
\* that returned, the exception leaves index_tutorial: the run returns
\* nothing and never reports DONE.  The failing call leaves every record
\* stored with the run's root and epoch as it is, and changes a record only
\* by removing it, and only a record of the run's root with another epoch:
\* stale records may remain, no record is left with altered fields.  With
\* no other workflow on the root in flight during the run, every record the
\* save persisted is in the index after the failure.
C22_SweepFailurePropagates ==
  [][\A p \in Procs :
       /\ SweepCallRaises(p)
            => /\ outcome[p] = "response" /\ saved_object_ids[p] # {}
               /\ pc'[p] = "RAISED" /\ ret'[p] = {}
               /\ alone[p]
                    => \A i \in saved_object_ids[p] :
                         index'[i] = Rec(root_url[p], index_epoch[p])
               /\ \A i \in ObjectIds :
                    /\ index[i] = Rec(root_url[p], index_epoch[p])
                         => index'[i] = index[i]
                    /\ index'[i] # index[i]
                         => /\ index'[i] = NoRec
                            /\ index[i].root_url = root_url[p]
                            /\ index[i].index_epoch # index_epoch[p]
       /\ sweep[p] # "-" => pc'[p] = "RAISED" /\ ret'[p] = {}]_vars

\* Witness of C22: the delete call of a sweep has raised; the run has
\* ended with the exception, its batch is in the index with its epoch, and
\* a stale record of its root is still there.
C22_Witness ==
  \E p \in Procs :
    /\ pc[p] = "RAISED" /\ sweep[p] = "delete raised" /\ alone[p]
    /\ calls[p] = <<"save", "browse", "delete">>
    /\ old_object_ids[p] # {}
    /\ \A i \in records[p] : index[i] = Rec(root_url[p], index_epoch[p])
    /\ ExpireFilter(index, root_url[p], index_epoch[p]) # {}

\* Process p browses and runs its loop (in expire_old_records or in
\* delete_root_url); process p makes its delete call and returns.
Collects(p) == pc'[p] \in {"SWEEP_DELETE", "DRU_DELETE"} /\ pc'[p] # pc[p]
DeletesAndReturns(p) ==
  pc[p] \in {"SWEEP_DELETE", "DRU_DELETE"} /\ pc'[p] \in {"DONE", "DRU_DONE"}

\* What the browse of p can give as a whole, all its pages together.
WholeResults(p) ==
  LET matching == IF pc'[p] = "SWEEP_DELETE"
                  THEN ExpireFilter(index, root_url[p], index_epoch[p])
                  ELSE RootFilter(index, root_url[p])
  IN  BrowseResults(index, matching)

\* The loop has run over the whole browse result when it goes on to the
\* delete call: the browse has no result the loop has not received.
ConsumedCompletely(p) ==
  Collects(p)
    => \E res \in WholeResults(p) :
         res \subseteq {h.objectID : h \in hits'[p]}

\* One delete call, after the browse, with the collected ids, issued
\* whatever the number of ids; delete_root_url returns these ids.
OneDeleteAfterBrowse(p) ==
  /\ DeletesAndReturns(p)
       => /\ calls'[p] = Append(calls[p], "delete")
          /\ Cardinality({n \in DOMAIN calls'[p] : calls'[p][n] = "delete"}) = 1
          /\ calls[p][Len(calls[p])] = "browse"
          /\ index' = Remove(index, old_object_ids[p])
          /\ pc'[p] = "DRU_DONE" => ret'[p] = old_object_ids[p]
  /\ (pc'[p] \in {"DONE", "DRU_DONE"} /\ pc'[p] # pc[p]
        /\ \E n \in DOMAIN calls'[p] : calls'[p][n] = "browse")
       => DeletesAndReturns(p)

\* C23: each call of expire_old_records and of delete_root_url that returns
\* has issued exactly one delete call, after it has consumed the browse
\* result completely, with exactly the ids it collected (which delete_root_url
\* returns); the delete call is issued also when no id was collected.
C23_OneDeleteAfterWholeBrowse ==
  [][\A p \in Procs : ConsumedCompletely(p) /\ OneDeleteAfterBrowse(p)]_vars

\* The part of C23 that does not depend on the pages of the browse.
DeleteCallDiscipline == [][\A p \in Procs : OneDeleteAfterBrowse(p)]_vars

\* The same for delete_root_url alone, with its whole browse.
DeleteRootUrlDiscipline ==
  [][\A p \in Procs :
       workflow'[p] = "delete_root_url"
         => ConsumedCompletely(p) /\ OneDeleteAfterBrowse(p)]_vars

\* The segments of the path of the input URL that end in ".html".
HtmlSegments ==
  {i \in DOMAIN SplitPath(UrlParse(v).path) :
     EndsWithHtml(SplitPath(UrlParse(v).path)[i])}

\* C24: the normalization of root_url is idempotent: validate_root_url
\* applied to a URL it has returned gives the same URL, whatever the path
\* of the input (several segments ending in ".html", an empty path, a path
\* that ends in "/").
C24_NormalizationIdempotent ==
  revalidated # NoUrlYet => revalidated = new_url

\* Witness of C24: the input has two segments that end in ".html"; both
\* were dropped, and the second validation has run on the bare root.
C24_Witness ==
  /\ revalidated # NoUrlYet
  /\ Cardinality(HtmlSegments) >= 2
  /\ new_url.rest = <<"/">>

====
